---- MODULE Spec2Model ----
(***************************************************************************)
(* Chess rules engine and fixed-depth negamax search of console_chess.py.  *)
(*                                                                         *)
(* A GameState is a record gs with the fields of the Python object:        *)
(*   board            64-tuple of one-character strings, row-major,        *)
(*                    rows 0..7 are ranks 8..1, cols 0..7 are files a..h   *)
(*   to_move          "w" or "b"                                           *)
(*   castling         record with the fields K, Q, k, q                    *)
(*   en_passant       algebraic square as a tuple of two characters,       *)
(*                    or NoSquare (Python None)                            *)
(*   halfmove_clock, fullmove_number, move_stack                           *)
(* A move is the tuple <<fr, fc, tr, tc, prom>>, prom being "q", "r", "b", *)
(* "n" or None.                                                            *)
(***************************************************************************)
EXTENDS Integers, Sequences, FiniteSets, TLC

VARIABLES
    gs,      \* the GameState the caller holds
    legal,   \* the list generate_moves() returned to the caller for gs
    log,     \* the last two operations on gs, most recent first
    answer,   \* what the last negamax call on gs returned, if one was made
    plies,   \* number of moves entered after the end of an opening line
    undos,   \* number of undo calls made so far
    ui       \* the program that drives gs: its loop or window state

vars == <<gs, legal, log, answer, plies, undos, ui>>

\* Python None as a promotion piece, and as an en-passant square.
None == "None"
NoSquare == <<>>
\* None where a move is expected.
NoMove == <<>>

----------------------------------------------------------------------------
\* Characters

UpperPieces == {"K", "Q", "R", "B", "N", "P"}
LowerPieces == {"k", "q", "r", "b", "n", "p"}

isupper(p) == p \in UpperPieces
islower(p) == p \in LowerPieces

upper(p) ==
    CASE p = "k" -> "K" [] p = "q" -> "Q" [] p = "r" -> "R"
      [] p = "b" -> "B" [] p = "n" -> "N" [] p = "p" -> "P"
      [] OTHER -> p

lower(p) ==
    CASE p = "K" -> "k" [] p = "Q" -> "q" [] p = "R" -> "r"
      [] p = "B" -> "b" [] p = "N" -> "n" [] p = "P" -> "p"
      [] OTHER -> p

FileChars == <<"a", "b", "c", "d", "e", "f", "g", "h">>
DigitChars == <<"0", "1", "2", "3", "4", "5", "6", "7", "8", "9">>

LowerLetters == <<"a", "b", "c", "d", "e", "f", "g", "h", "i", "j", "k", "l", "m",
                  "n", "o", "p", "q", "r", "s", "t", "u", "v", "w", "x", "y", "z">>
UpperLetters == <<"A", "B", "C", "D", "E", "F", "G", "H", "I", "J", "K", "L", "M",
                  "N", "O", "P", "Q", "R", "S", "T", "U", "V", "W", "X", "Y", "Z">>

IndexOf(ch, chars) == CHOOSE i \in 1..Len(chars) : chars[i] = ch
Among(ch, chars) == \E i \in 1..Len(chars) : chars[i] = ch

isdigit(ch) == Among(ch, DigitChars)
isspace(ch) == ch = " "

\* ord(ch) for the characters a text is made of here: digits, letters, the
\* blank and the hyphen.
ord(ch) ==
    IF isdigit(ch) THEN 47 + IndexOf(ch, DigitChars)
    ELSE IF Among(ch, UpperLetters) THEN 64 + IndexOf(ch, UpperLetters)
    ELSE IF Among(ch, LowerLetters) THEN 96 + IndexOf(ch, LowerLetters)
    ELSE IF isspace(ch) THEN 32
    ELSE 45

\* ord(ch) - ord('a'), and int(ch) for a digit; int raises ValueError on any
\* other character.
ValueError == "ValueError"
OrdFromA(ch) == ord(ch) - ord("a")
int(ch) == IndexOf(ch, DigitChars) - 1
str(n) == DigitChars[n + 1]

PIECE_VALUES(k) ==
    CASE k = "K" -> 0 [] k = "Q" -> 900 [] k = "R" -> 500
      [] k = "B" -> 330 [] k = "N" -> 320 [] k = "P" -> 100
      [] OTHER -> 0

----------------------------------------------------------------------------
\* Board access

Sq(r, c) == r * 8 + c + 1
At(b, r, c) == b[Sq(r, c)]
Put(b, r, c, p) == [b EXCEPT ![Sq(r, c)] = p]

algebraic_to_coords(s) ==
    IF isdigit(s[2]) THEN <<8 - int(s[2]), OrdFromA(s[1])>> ELSE ValueError
coords_to_algebraic(r, c) == <<FileChars[c + 1], str(8 - r)>>

piece_color(p) == IF p = "." THEN None ELSE IF isupper(p) THEN "w" ELSE "b"
enemy(side) == IF side = "w" THEN "b" ELSE "w"
in_bounds(r, c) == 0 <= r /\ r < 8 /\ 0 <= c /\ c < 8

KnightOffsets ==
    <<<<-2, -1>>, <<-2, 1>>, <<-1, -2>>, <<-1, 2>>,
      <<1, -2>>, <<1, 2>>, <<2, -1>>, <<2, 1>>>>
KingOffsets ==
    <<<<-1, -1>>, <<-1, 0>>, <<-1, 1>>, <<0, -1>>,
      <<0, 1>>, <<1, -1>>, <<1, 0>>, <<1, 1>>>>
DiagonalDirs == <<<<-1, -1>>, <<-1, 1>>, <<1, -1>>, <<1, 1>>>>
StraightDirs == <<<<-1, 0>>, <<1, 0>>, <<0, -1>>, <<0, 1>>>>
QueenDirs == DiagonalDirs \o StraightDirs

\* The while loop of is_attacked along one ray: the first occupied square
\* decides.
\* Faulty variant: no attack is seen along a ray.
RayAttacked_Blind(b, rr, cc, dr, dc, by_side, kinds) == FALSE

RECURSIVE RayAttacked(_, _, _, _, _, _, _)
RayAttacked(b, rr, cc, dr, dc, by_side, kinds) ==
    IF ~in_bounds(rr, cc) THEN FALSE
    ELSE LET ch == At(b, rr, cc) IN
         IF ch # "."
         THEN piece_color(ch) = by_side /\ upper(ch) \in kinds
         ELSE RayAttacked(b, rr + dr, cc + dc, dr, dc, by_side, kinds)

is_attacked(b, r, c, by_side) ==
    LET directions == IF by_side = "w" THEN <<<<-1, -1>>, <<-1, 1>>>>
                                       ELSE <<<<1, -1>>, <<1, 1>>>>
        own(rr, cc, kind) ==
            /\ in_bounds(rr, cc)
            /\ upper(At(b, rr, cc)) = kind
            /\ piece_color(At(b, rr, cc)) = by_side
    IN  \/ \E i \in 1..2 : own(r + directions[i][1], c + directions[i][2], "P")
        \/ \E i \in 1..8 : own(r + KnightOffsets[i][1], c + KnightOffsets[i][2], "N")
        \/ \E i \in 1..4 :
              RayAttacked(b, r + DiagonalDirs[i][1], c + DiagonalDirs[i][2],
                          DiagonalDirs[i][1], DiagonalDirs[i][2], by_side, {"B", "Q"})
        \/ \E i \in 1..4 :
              RayAttacked(b, r + StraightDirs[i][1], c + StraightDirs[i][2],
                          StraightDirs[i][1], StraightDirs[i][2], by_side, {"R", "Q"})
        \/ \E i \in 1..8 : own(r + KingOffsets[i][1], c + KingOffsets[i][2], "K")

\* The first square, in row-major order, holding the side's king; NoSquare
\* when there is none.
king_position(b, side) ==
    LET target == IF side = "w" THEN "K" ELSE "k"
        found == {i \in 1..64 : b[i] = target}
    IN  IF found = {} THEN NoSquare
        ELSE LET i == CHOOSE j \in found : \A k \in found : j <= k
             IN  <<(i - 1) \div 8, (i - 1) % 8>>

in_check(b, side) ==
    LET kr == king_position(b, side) IN
    IF kr = NoSquare THEN TRUE
    ELSE is_attacked(b, kr[1], kr[2], enemy(side))

----------------------------------------------------------------------------
\* Pseudo-legal move generation, in the order the code appends the moves

PromoPieces == <<"q", "r", "b", "n">>

Promotions(r, c, tr, tc) == [i \in 1..4 |-> <<r, c, tr, tc, PromoPieces[i]>>]

_pawn_moves(g, r, c) ==
    LET b == g.board
        side == piece_color(At(b, r, c))
        dir == IF side = "w" THEN -1 ELSE 1
        start_row == IF side = "w" THEN 6 ELSE 1
        far(rr) == (rr = 0 /\ side = "w") \/ (rr = 7 /\ side = "b")
        forward ==
            IF in_bounds(r + dir, c) /\ At(b, r + dir, c) = "."
            THEN IF far(r + dir)
                 THEN Promotions(r, c, r + dir, c)
                 ELSE <<<<r, c, r + dir, c, None>>>> \o
                      (IF r = start_row /\ At(b, r + 2 * dir, c) = "."
                       THEN <<<<r, c, r + 2 * dir, c, None>>>>
                       ELSE <<>>)
            ELSE <<>>
        capture(dc) ==
            LET rr == r + dir
                cc == c + dc
            IN  IF ~in_bounds(rr, cc) THEN <<>>
                ELSE IF At(b, rr, cc) # "." /\ piece_color(At(b, rr, cc)) = enemy(side)
                     THEN IF far(rr) THEN Promotions(r, c, rr, cc)
                          ELSE <<<<r, c, rr, cc, None>>>>
                     ELSE <<>>
        ep ==
            IF g.en_passant # NoSquare
            THEN LET e == algebraic_to_coords(g.en_passant) IN
                 IF e[1] = r + dir /\ (e[2] - c = 1 \/ c - e[2] = 1)
                 THEN <<<<r, c, e[1], e[2], None>>>>
                 ELSE <<>>
            ELSE <<>>
    IN  forward \o capture(-1) \o capture(1) \o ep

\* One jump per offset that lands on the board on an empty or enemy square.
RECURSIVE StepMoves(_, _, _, _, _)
StepMoves(b, r, c, offsets, i) ==
    IF i > Len(offsets) THEN <<>>
    ELSE LET rr == r + offsets[i][1]
             cc == c + offsets[i][2]
             side == piece_color(At(b, r, c))
             here == IF in_bounds(rr, cc)
                        /\ (At(b, rr, cc) = "." \/ piece_color(At(b, rr, cc)) = enemy(side))
                     THEN <<<<r, c, rr, cc, None>>>>
                     ELSE <<>>
         IN  here \o StepMoves(b, r, c, offsets, i + 1)

\* Faulty variant: the knights cannot move.
_knight_moves_None(g, r, c) == <<>>

_knight_moves(g, r, c) == StepMoves(g.board, r, c, KnightOffsets, 1)

\* The while loop of _sliding_moves along one direction.
RECURSIVE RayMoves(_, _, _, _, _, _, _)
RayMoves(b, r, c, rr, cc, dr, dc) ==
    IF ~in_bounds(rr, cc) THEN <<>>
    ELSE IF At(b, rr, cc) = "."
         THEN <<<<r, c, rr, cc, None>>>> \o RayMoves(b, r, c, rr + dr, cc + dc, dr, dc)
         ELSE IF piece_color(At(b, rr, cc)) = enemy(piece_color(At(b, r, c)))
              THEN <<<<r, c, rr, cc, None>>>>
              ELSE <<>>

RECURSIVE SlideDirs(_, _, _, _, _)
SlideDirs(b, r, c, directions, i) ==
    IF i > Len(directions) THEN <<>>
    ELSE RayMoves(b, r, c, r + directions[i][1], c + directions[i][2],
                  directions[i][1], directions[i][2])
         \o SlideDirs(b, r, c, directions, i + 1)

_sliding_moves(g, r, c, directions) == SlideDirs(g.board, r, c, directions, 1)

CastleKingSide(g, row, by) ==
    /\ At(g.board, row, 5) = "."
    /\ At(g.board, row, 6) = "."
    /\ ~is_attacked(g.board, row, 4, by)
    /\ ~is_attacked(g.board, row, 5, by)
    /\ ~is_attacked(g.board, row, 6, by)

CastleQueenSide(g, row, by) ==
    /\ At(g.board, row, 3) = "."
    /\ At(g.board, row, 2) = "."
    /\ At(g.board, row, 1) = "."
    /\ ~is_attacked(g.board, row, 4, by)
    /\ ~is_attacked(g.board, row, 3, by)
    /\ ~is_attacked(g.board, row, 2, by)

_king_moves(g, r, c) ==
    LET side == piece_color(At(g.board, r, c))
        castle(right, ok, row, tc) ==
            IF right /\ ok THEN <<<<row, 4, row, tc, None>>>> ELSE <<>>
    IN  StepMoves(g.board, r, c, KingOffsets, 1)
        \o (IF side = "w" /\ r = 7 /\ c = 4
            THEN castle(g.castling.K, CastleKingSide(g, 7, "b"), 7, 6)
                 \o castle(g.castling.Q, CastleQueenSide(g, 7, "b"), 7, 2)
            ELSE <<>>)
        \o (IF side = "b" /\ r = 0 /\ c = 4
            THEN castle(g.castling.k, CastleKingSide(g, 0, "w"), 0, 6)
                 \o castle(g.castling.q, CastleQueenSide(g, 0, "w"), 0, 2)
            ELSE <<>>)

PieceMoves(g, r, c) ==
    LET p == At(g.board, r, c)
        kind == upper(p)
    IN  IF p = "." \/ piece_color(p) # g.to_move THEN <<>>
        ELSE CASE kind = "P" -> _pawn_moves(g, r, c)
               [] kind = "N" -> _knight_moves(g, r, c)
               [] kind = "B" -> _sliding_moves(g, r, c, DiagonalDirs)
               [] kind = "R" -> _sliding_moves(g, r, c, StraightDirs)
               [] kind = "Q" -> _sliding_moves(g, r, c, QueenDirs)
               [] kind = "K" -> _king_moves(g, r, c)
               [] OTHER -> <<>>

\* The lists an eight-step loop appends, one after the other.
Concat8(part) ==
    part[0] \o part[1] \o part[2] \o part[3]
    \o part[4] \o part[5] \o part[6] \o part[7]

\* for c in range(8): the moves of the pieces of row r, file by file
RowMoves(g, r) == Concat8([c \in 0..7 |-> PieceMoves(g, r, c)])

\* for r in range(8): the candidate list of generate_moves before the
\* legality filter.
PseudoMoves(g) == Concat8([r \in 0..7 |-> RowMoves(g, r)])

----------------------------------------------------------------------------
\* Move application and reversal

abs(x) == IF x < 0 THEN -x ELSE x

\* The record make_move pushes on move_stack.
UndoRecord(g, move) ==
    [fr |-> move[1], fc |-> move[2], tr |-> move[3], tc |-> move[4],
     piece |-> At(g.board, move[1], move[2]),
     target |-> At(g.board, move[3], move[4]),
     castling |-> g.castling, en_passant |-> g.en_passant,
     halfmove |-> g.halfmove_clock, fullmove |-> g.fullmove_number]

HalfmoveAfter(g, move) ==
    IF upper(At(g.board, move[1], move[2])) = "P" \/ At(g.board, move[3], move[4]) # "."
    THEN 0
    ELSE g.halfmove_clock + 1

\* Faulty variant: the en-passant capture leaves the passed pawn on the board.
BoardAfterCapture_KeepsPawn(g, move) == Put(g.board, move[1], move[2], ".")

\* The source square is cleared, and the pawn an en-passant capture passes
\* is removed.
BoardAfterCapture(g, move) ==
    LET fr == move[1]
        fc == move[2]
        tr == move[3]
        tc == move[4]
        piece == At(g.board, fr, fc)
        target == At(g.board, tr, tc)
        b1 == Put(g.board, fr, fc, ".")
    IN  IF upper(piece) = "P" /\ g.en_passant # NoSquare
        THEN LET e == algebraic_to_coords(g.en_passant) IN
             IF tr = e[1] /\ tc = e[2] /\ fc # tc /\ target = "."
             THEN Put(b1, fr, tc, ".")
             ELSE b1
        ELSE b1

\* Faulty variant: a promotion always yields a white piece.
Promoted_AlwaysWhite(piece, prom) == upper(prom)

\* The piece a promotion puts on the board.
Promoted(piece, prom) == IF isupper(piece) THEN upper(prom) ELSE lower(prom)

\* The castling rook move, the promotion, or the plain move.
BoardAfter(g, move) ==
    LET fr == move[1]
        fc == move[2]
        tr == move[3]
        tc == move[4]
        prom == move[5]
        piece == At(g.board, fr, fc)
        b2 == BoardAfterCapture(g, move)
    IN  IF upper(piece) = "K" /\ abs(tc - fc) = 2
        THEN IF tc > fc
             THEN Put(Put(Put(b2, tr, tc, piece), tr, tc - 1, At(b2, tr, 7)), tr, 7, ".")
             ELSE Put(Put(Put(b2, tr, tc, piece), tr, tc + 1, At(b2, tr, 0)), tr, 0, ".")
        ELSE IF prom # None /\ upper(piece) = "P" /\ (tr = 0 \/ tr = 7)
             THEN Put(b2, tr, tc, Promoted(piece, prom))
             ELSE Put(b2, tr, tc, piece)

\* Whether the right of the corner (r, c) is dropped: the move starts or ends
\* on the corner and no rook stands there afterwards (b is the board after
\* the move).
CornerLost(move, b, r, c) ==
    /\ (move[1] = r /\ move[2] = c) \/ (move[3] = r /\ move[4] = c)
    /\ upper(At(b, r, c)) # "R"

CastlingAfter(g, move, b) ==
    LET piece == At(g.board, move[1], move[2]) IN
    [K |-> g.castling.K /\ piece # "K" /\ ~CornerLost(move, b, 7, 7),
     Q |-> g.castling.Q /\ piece # "K" /\ ~CornerLost(move, b, 7, 0),
     k |-> g.castling.k /\ piece # "k" /\ ~CornerLost(move, b, 0, 7),
     q |-> g.castling.q /\ piece # "k" /\ ~CornerLost(move, b, 0, 0)]

\* Faulty variant: the target of an earlier double push survives other moves.
EnPassantAfter_Sticky(g, move) ==
    IF upper(At(g.board, move[1], move[2])) = "P" /\ abs(move[3] - move[1]) = 2
    THEN coords_to_algebraic((move[1] + move[3]) \div 2, move[2])
    ELSE g.en_passant

EnPassantAfter(g, move) ==
    IF upper(At(g.board, move[1], move[2])) = "P" /\ abs(move[3] - move[1]) = 2
    THEN coords_to_algebraic((move[1] + move[3]) \div 2, move[2])
    ELSE NoSquare

make_move(g, move) ==
    LET b == BoardAfter(g, move)
        side == enemy(g.to_move)
    IN  [board |-> b,
         to_move |-> side,
         castling |-> CastlingAfter(g, move, b),
         en_passant |-> EnPassantAfter(g, move),
         halfmove_clock |-> HalfmoveAfter(g, move),
         fullmove_number |-> IF side = "w" THEN g.fullmove_number + 1
                             ELSE g.fullmove_number,
         move_stack |-> Append(g.move_stack, UndoRecord(g, move))]

\* Faulty variant: with nothing to take back the side to move still flips.
undo_FlipsAnyway(g) ==
    IF g.move_stack = <<>> THEN [g EXCEPT !.to_move = enemy(g.to_move)]
    ELSE LET s == g.move_stack[Len(g.move_stack)] IN
         [board |-> Put(Put(g.board, s.fr, s.fc, s.piece), s.tr, s.tc, s.target),
          to_move |-> enemy(g.to_move),
          castling |-> s.castling,
          en_passant |-> s.en_passant,
          halfmove_clock |-> s.halfmove,
          fullmove_number |-> s.fullmove,
          move_stack |-> SubSeq(g.move_stack, 1, Len(g.move_stack) - 1)]

undo(g) ==
    IF g.move_stack = <<>> THEN g
    ELSE LET s == g.move_stack[Len(g.move_stack)] IN
         [board |-> Put(Put(g.board, s.fr, s.fc, s.piece), s.tr, s.tc, s.target),
          to_move |-> enemy(g.to_move),
          castling |-> s.castling,
          en_passant |-> s.en_passant,
          halfmove_clock |-> s.halfmove,
          fullmove_number |-> s.fullmove,
          move_stack |-> SubSeq(g.move_stack, 1, Len(g.move_stack) - 1)]

\* The legality filter: each candidate is applied to a clone, and kept when
\* the mover's king is not in check there.
\* (BoardAfter(g, m) is the board of the clone after its make_move(m).)
KeepsKingSafe(g, m) == ~in_check(BoardAfter(g, m), g.to_move)

generate_moves(g) == SelectSeq(PseudoMoves(g), LAMBDA m : KeepsKingSafe(g, m))

\* Faulty variant: no legal move counts as checkmate whether or not the king is in
\* check.
is_checkmate_NoCheckTest(g) == Len(generate_moves(g)) = 0

is_checkmate(g) ==
    IF ~in_check(g.board, g.to_move) THEN FALSE
    ELSE Len(generate_moves(g)) = 0

is_stalemate(g) ==
    IF in_check(g.board, g.to_move) THEN FALSE
    ELSE Len(generate_moves(g)) = 0

----------------------------------------------------------------------------
\* Construction

STARTING_BOARD ==
    <<"r", "n", "b", "q", "k", "b", "n", "r",
      "p", "p", "p", "p", "p", "p", "p", "p",
      ".", ".", ".", ".", ".", ".", ".", ".",
      ".", ".", ".", ".", ".", ".", ".", ".",
      ".", ".", ".", ".", ".", ".", ".", ".",
      ".", ".", ".", ".", ".", ".", ".", ".",
      "P", "P", "P", "P", "P", "P", "P", "P",
      "R", "N", "B", "Q", "K", "B", "N", "R">>

\* GameState(): the position parse_fen builds from STARTING_FEN.
NewGame ==
    [board |-> STARTING_BOARD,
     to_move |-> "w",
     castling |-> [K |-> TRUE, Q |-> TRUE, k |-> TRUE, q |-> TRUE],
     en_passant |-> NoSquare,
     halfmove_clock |-> 0,
     fullmove_number |-> 1,
     move_stack |-> <<>>]

\* str.strip(): the text without its leading and trailing blanks.
RECURSIVE lstrip(_)
lstrip(s) == IF s # <<>> /\ isspace(Head(s)) THEN lstrip(Tail(s)) ELSE s

RECURSIVE rstrip(_)
rstrip(s) ==
    IF s # <<>> /\ isspace(s[Len(s)]) THEN rstrip(SubSeq(s, 1, Len(s) - 1)) ELSE s

strip(s) == rstrip(lstrip(s))

\* The move a stripped text of four characters or more stands for.
Coords(fr, tr, prom) ==
    IF fr = ValueError \/ tr = ValueError THEN ValueError
    ELSE <<fr[1], fr[2], tr[1], tr[2], prom>>

\* move_from_uci: the text is a tuple of characters; the result is a move,
\* None, or the ValueError that int() raised.
move_from_uci(s) ==
    IF Len(strip(s)) < 4 THEN None
    ELSE Coords(algebraic_to_coords(SubSeq(strip(s), 1, 2)),
                algebraic_to_coords(SubSeq(strip(s), 3, 4)),
                IF Len(strip(s)) >= 5 THEN strip(s)[5] ELSE None)

----------------------------------------------------------------------------
\* Serialisation

\* str() of a non-negative integer, as its decimal digits
RECURSIVE Decimal(_)
Decimal(n) == IF n < 10 THEN <<str(n)>> ELSE Decimal(n \div 10) \o <<str(n % 10)>>

\* One row of the board part: runs of empty squares become their length.
RECURSIVE RowFen(_, _, _, _)
RowFen(b, r, c, empty) ==
    IF c > 7 THEN (IF empty > 0 THEN <<str(empty)>> ELSE <<>>)
    ELSE LET ch == At(b, r, c) IN
         IF ch = "." THEN RowFen(b, r, c + 1, empty + 1)
         ELSE (IF empty > 0 THEN <<str(empty)>> ELSE <<>>)
              \o <<ch>> \o RowFen(b, r, c + 1, 0)

RECURSIVE BoardFen(_, _)
BoardFen(b, r) ==
    IF r = 7 THEN RowFen(b, 7, 0, 0)
    ELSE RowFen(b, r, 0, 0) \o <<"/">> \o BoardFen(b, r + 1)

fen(g) ==
    LET flags == (IF g.castling.K THEN <<"K">> ELSE <<>>)
                 \o (IF g.castling.Q THEN <<"Q">> ELSE <<>>)
                 \o (IF g.castling.k THEN <<"k">> ELSE <<>>)
                 \o (IF g.castling.q THEN <<"q">> ELSE <<>>)
        castling_part == IF flags = <<>> THEN <<"-">> ELSE flags
        ep == IF g.en_passant # NoSquare THEN g.en_passant ELSE <<"-">>
    IN  BoardFen(g.board, 0) \o <<" ">> \o <<g.to_move>> \o <<" ">>
        \o castling_part \o <<" ">> \o ep \o <<" ">>
        \o Decimal(g.halfmove_clock) \o <<" ">> \o Decimal(g.fullmove_number)

----------------------------------------------------------------------------
\* Evaluation and search

\* deepcopy: values are immutable here, so the copy is the value itself.
clone(g) == g

\* What one square adds to material_score.
SquareValue(p) ==
    LET val == PIECE_VALUES(upper(p))
    IN  IF p = "." THEN 0 ELSE IF isupper(p) THEN val ELSE -val

RowValue(b, r) ==
    SquareValue(At(b, r, 0)) + SquareValue(At(b, r, 1))
    + SquareValue(At(b, r, 2)) + SquareValue(At(b, r, 3))
    + SquareValue(At(b, r, 4)) + SquareValue(At(b, r, 5))
    + SquareValue(At(b, r, 6)) + SquareValue(At(b, r, 7))

\* Positive means white advantage.
material_score(g) ==
    RowValue(g.board, 0) + RowValue(g.board, 1) + RowValue(g.board, 2)
    + RowValue(g.board, 3) + RowValue(g.board, 4) + RowValue(g.board, 5)
    + RowValue(g.board, 6) + RowValue(g.board, 7)

evaluate(g) ==
    LET mat == material_score(g)
        moves == Len(generate_moves(g))
        gs2 == [clone(g) EXCEPT !.to_move = enemy(g.to_move)]
        opp_moves == Len(generate_moves(gs2))
        mobility == moves - opp_moves
    IN  mat + 10 * mobility

\* The sort key of negamax: captures first, the most valuable victim first.
mv_key(g, m) ==
    LET target == At(g.board, m[3], m[4]) IN
    IF target # "." THEN 100 + PIECE_VALUES(upper(target)) ELSE 0

\* moves.sort(key=mv_key, reverse=True): a stable sort, so moves of equal key
\* keep the order generate_moves gave them.
RECURSIVE SortByKeys(_, _, _)
SortByKeys(g, moves, keys) ==
    IF keys = {} THEN <<>>
    ELSE LET k == CHOOSE x \in keys : \A y \in keys : y <= x
         IN  SelectSeq(moves, LAMBDA m : mv_key(g, m) = k)
             \o SortByKeys(g, moves, keys \ {k})

SortedMoves(g, moves) ==
    SortByKeys(g, moves, {mv_key(g, moves[i]) : i \in 1..Len(moves)})

INFINITY == 1000000000
MATED == 999999
MATE_BIAS == 10

\* Faulty variant: the window is handed down without being swapped.
ChildWindow_NotSwapped(alpha, beta) == <<-alpha, -beta>>

\* The window of the recursive call: negamax(gs2, depth-1, -beta, -alpha).
ChildWindow(alpha, beta) == <<-beta, -alpha>>

\* Faulty variant: the bias grows with the remaining depth.
MatedScore_Reversed(depth) == -MATED + (MATE_BIAS + depth)

\* -999999 + (10 - depth): the score of a side that is mated with depth plies
\* still to search.
MatedScore(depth) == -MATED + (MATE_BIAS - depth)

\* Faulty variant: no legal move always counts as being mated.
NoMovesScore_AlwaysMated(g, depth) == MatedScore(depth)

\* The score negamax returns when generate_moves() is empty.
NoMovesScore(g, depth) ==
    IF in_check(g.board, g.to_move) THEN MatedScore(depth) ELSE 0

\* negamax returns <<score, move>>; a third component counts the calls made,
\* which the code does not compute.  The move is NoMove where the code
\* returns None.
RECURSIVE negamax(_, _, _, _)
RECURSIVE SearchMoves(_, _, _, _, _, _, _)

\* The loop over the sorted moves, from the i-th on, with the running
\* best_val, best_move in best.
SearchMoves(g, depth, moves, i, alpha, beta, best) ==
    IF i > Len(moves) THEN best
    ELSE LET m == moves[i]
             gs2 == make_move(clone(g), m)
             w == ChildWindow(alpha, beta)
             sub == negamax(gs2, depth - 1, w[1], w[2])
             val == -sub[1]
             best2 == IF val > best[1] THEN <<val, m, best[3] + sub[3]>>
                      ELSE <<best[1], best[2], best[3] + sub[3]>>
             alpha2 == IF val > alpha THEN val ELSE alpha
         IN  IF alpha2 >= beta THEN best2
             ELSE SearchMoves(g, depth, moves, i + 1, alpha2, beta, best2)

negamax(g, depth, alpha, beta) ==
    IF depth = 0 THEN <<evaluate(g), NoMove, 1>>
    ELSE LET moves == generate_moves(g) IN
         IF moves = <<>>
         THEN <<NoMovesScore(g, depth), NoMove, 1>>
         ELSE SearchMoves(g, depth, SortedMoves(g, moves), 1, alpha, beta,
                          <<-INFINITY, NoMove, 1>>)

----------------------------------------------------------------------------
\* The callers' inputs.  The moves a caller enters follow one of the opening
\* lines below from the initial position; where an open line ends, every
\* legal move may be entered for MaxPly further plies.  Up to MaxUndo moves
\* are taken back, and the search is asked for a move at depths up to
\* MaxDepth.

MaxPly == 1
MaxUndo == 1
MaxDepth == 2

U(a, b, c, d) == <<a, b, c, d>>

\* Both sides can castle soon; the bishop on f5 attacks b1.
LineCastleA ==
    <<U("d","2","d","4"), U("d","7","d","6"), U("c","1","f","4"), U("c","8","f","5"),
      U("d","1","d","2"), U("g","8","f","6"), U("b","1","a","3"), U("e","7","e","6"),
      U("c","2","c","3"), U("f","8","e","7")>>
\* King-side castling for white, queen-side for black.
LineCastleB ==
    <<U("e","2","e","4"), U("d","7","d","6"), U("g","1","f","3"), U("c","8","g","4"),
      U("f","1","e","2"), U("b","8","c","6"), U("d","2","d","3"), U("d","8","d","7")>>
\* The h-file is open between the two rooks.
LineCornerRook ==
    <<U("h","2","h","4"), U("g","7","g","5"), U("h","4","g","5"), U("g","8","f","6"),
      U("g","5","g","6"), U("h","7","g","6")>>
\* The bishop on b2 looks at the rook on h8.
LineCornerBishop ==
    <<U("b","2","b","3"), U("g","7","g","6"), U("c","1","b","2"), U("a","7","a","6")>>
\* Pawns on e5 and c4, next to pawns that can still push two squares.
LineEnPassant ==
    <<U("e","2","e","4"), U("c","7","c","5"), U("e","4","e","5"), U("c","5","c","4")>>
\* A white pawn on g7 that can promote by push (g8) or by capture (h8).
LinePromoWhite ==
    <<U("h","2","h","4"), U("g","7","g","5"), U("h","4","g","5"), U("h","7","h","6"),
      U("g","5","h","6"), U("f","8","g","7"), U("h","6","g","7"), U("g","8","f","6")>>
\* A black pawn on g2 that can promote by push (g1) or by capture (h1).
LinePromoBlack ==
    <<U("a","2","a","3"), U("h","7","h","5"), U("g","2","g","4"), U("h","5","g","4"),
      U("h","2","h","3"), U("g","4","h","3"), U("f","1","g","2"), U("h","3","g","2"),
      U("g","1","f","3")>>
\* The fool's mate, but for its last move.
LineMate ==
    <<U("f","2","f","3"), U("e","7","e","5"), U("g","2","g","4")>>
\* A long game down to a bare white king on h1; black's Kc7xd6 then leaves
\* white without a move and not in check.
LineStalemate ==
    <<U("c","2","c","3"), U("b","7","b","6"), U("d","1","b","3"), U("c","8","a","6"),
      U("b","3","b","6"), U("a","6","e","2"), U("g","1","e","2"), U("d","7","d","6"),
      U("b","6","d","6"), U("c","7","d","6"), U("h","2","h","4"), U("h","7","h","6"),
      U("a","2","a","3"), U("d","8","d","7"), U("e","2","f","4"), U("a","7","a","6"),
      U("f","1","a","6"), U("b","8","a","6"), U("d","2","d","4"), U("a","6","c","7"),
      U("c","3","c","4"), U("f","7","f","5"), U("f","4","d","3"), U("a","8","a","3"),
      U("c","1","h","6"), U("a","3","d","3"), U("h","6","g","7"), U("h","8","h","4"),
      U("h","1","h","4"), U("f","8","g","7"), U("d","4","d","5"), U("c","7","e","6"),
      U("d","5","e","6"), U("g","7","b","2"), U("e","6","d","7"), U("b","2","a","1"),
      U("e","1","f","1"), U("g","8","f","6"), U("h","4","g","4"), U("f","5","g","4"),
      U("f","1","g","1"), U("e","8","d","7"), U("b","1","c","3"), U("a","1","c","3"),
      U("f","2","f","3"), U("d","7","c","7"), U("f","3","g","4"), U("f","6","g","4"),
      U("g","2","g","3"), U("d","3","g","3"), U("g","1","h","1"), U("d","6","d","5"),
      U("c","4","d","5"), U("c","3","g","7"), U("d","5","d","6")>>
\* A game traded down to kings and pawns: white Kf2 and Pd4, black Kf4, Pd7
\* and Pe7, white to move.
LineEndgame ==
    <<U("f","2","f","4"), U("f","7","f","5"), U("b","1","c","3"), U("c","7","c","6"),
      U("g","2","g","3"), U("a","7","a","6"), U("h","2","h","3"), U("a","8","a","7"),
      U("e","2","e","3"), U("b","7","b","5"), U("c","3","b","5"), U("c","6","b","5"),
      U("f","1","b","5"), U("a","7","b","7"), U("b","5","a","6"), U("b","7","b","6"),
      U("a","6","c","8"), U("d","8","c","8"), U("d","1","g","4"), U("f","5","g","4"),
      U("h","3","g","4"), U("b","6","b","2"), U("c","1","b","2"), U("c","8","c","2"),
      U("b","2","g","7"), U("c","2","a","2"), U("a","1","a","2"), U("h","7","h","5"),
      U("g","4","h","5"), U("f","8","g","7"), U("a","2","a","8"), U("h","8","h","5"),
      U("a","8","b","8"), U("e","8","f","7"), U("b","8","g","8"), U("h","5","h","1"),
      U("g","8","g","7"), U("f","7","g","7"), U("e","1","d","1"), U("h","1","g","1"),
      U("d","1","e","2"), U("g","1","g","3"), U("d","2","d","4"), U("g","3","e","3"),
      U("e","2","e","3"), U("g","7","g","6"), U("e","3","e","2"), U("g","6","f","5"),
      U("e","2","f","2"), U("f","5","f","4")>>
\* The pawns meet: a double push beside the white pawn,
EndgameA ==
    <<U("d","4","d","5"), U("e","7","e","5")>>
\* the en-passant capture and the recapture.
EndgameB ==
    <<U("d","5","e","6"), U("d","7","e","6")>>
\* The kings approach the white pawn,
EndgameC ==
    <<U("f","2","e","2"), U("f","4","e","4")>>
\* and the black king wins it.
EndgameD ==
    <<U("e","2","d","2"), U("e","4","d","4")>>

\* The white king steps aside and the black pawn offers itself;
EndgameE ==
    <<U("f","2","g","2"), U("e","7","e","5")>>
\* pawn takes pawn, king takes pawn.
EndgameF ==
    <<U("d","4","e","5"), U("f","4","e","5")>>

\* The black pawn on g2 again; the white king steps to f1, beside it, and
\* the pawn takes on f1.
LineKingTaken ==
    SubSeq(LinePromoBlack, 1, 8)
    \o <<U("e","1","f","1"), <<"g", "2", "f", "1", "q">>>>
\* The rooks meet on h8: the white rook takes the black one there and is
\* taken by the rook from a8, with which black then castles.
LineOtherRook ==
    <<U("h","2","h","4"), U("g","7","g","5"), U("h","4","g","5"), U("h","7","h","5"),
      U("g","5","h","6"), U("f","8","h","6"), U("h","1","h","6"), U("a","7","a","5"),
      U("h","6","h","8"), U("a","8","a","6"), U("a","2","a","3"), U("a","6","h","6"),
      U("b","2","b","3"), U("h","6","h","8"), U("c","2","c","3"), U("g","8","f","6"),
      U("d","2","d","3"), U("e","8","g","8")>>

\* What the caller types, as move_from_uci reads it.
Parsed(texts) ==
    [i \in 1..Len(texts) |->
        [k \in 1..Len(texts[i]) |-> move_from_uci(texts[i][k])]]

LineTexts == <<
    LineCastleA \o <<U("e","1","c","1")>>,
    LineCastleB \o <<U("e","1","g","1")>>,
    LineCornerRook \o <<U("h","1","h","8")>>,
    LineCornerBishop \o <<U("b","2","h","8")>>,
    LineEnPassant \o <<U("d","2","d","4"), U("c","4","d","3")>>,
    LineEnPassant \o <<U("h","2","h","3"), U("d","7","d","5"),
                       U("e","5","d","6")>>,
    LineEnPassant \o <<U("h","2","h","3"), U("d","7","d","5"),
                       U("a","2","a","3"), U("a","7","a","6")>>,
    LinePromoWhite,
    LinePromoBlack,
    LineMate \o <<U("d","8","h","4")>>,
    LineStalemate \o <<U("c","7","d","6")>>,
    LineKingTaken,
    LineOtherRook
>>

\* The lines after which the caller goes on with moves of its own.
OpenLineTexts == <<LineEnPassant, LinePromoWhite, LinePromoBlack>>

Lines == Parsed(LineTexts)
OpenLines == Parsed(OpenLineTexts)

SeqToSet(s) == {s[i] : i \in 1..Len(s)}

\* The moves on the history stack, oldest first, as <<fr, fc, tr, tc>>.
StackMoves(g) ==
    [i \in 1..Len(g.move_stack) |->
        <<g.move_stack[i].fr, g.move_stack[i].fc,
          g.move_stack[i].tr, g.move_stack[i].tc>>]

\* Whether the moves s are the first moves of t, promotion pieces aside.
IsPrefix(s, t) ==
    /\ Len(s) <= Len(t)
    /\ \A k \in 1..Len(s) : SubSeq(s[k], 1, 4) = SubSeq(t[k], 1, 4)

\* The next moves of the opening lines the history is a proper prefix of.
Scripted(g, lines) ==
    LET h == StackMoves(g) IN
    {lines[i][Len(h) + 1] :
        i \in {j \in 1..Len(lines) :
                 Len(h) < Len(lines[j]) /\ IsPrefix(h, lines[j])}}

\* Whether the history is one of the opening lines played out, and more.
PastLine(g, lines) ==
    \E i \in 1..Len(lines) : IsPrefix(lines[i], StackMoves(g))

\* Whether the history is one of the opening lines followed by n more moves.
AtEnd(g, lines, n) ==
    \E i \in 1..Len(lines) :
        /\ Len(g.move_stack) = Len(lines[i]) + n
        /\ IsPrefix(lines[i], StackMoves(g))

\* Whether the history is one of the opening lines, or the beginning of one.
OnLine(g, lines) ==
    \E i \in 1..Len(lines) : IsPrefix(StackMoves(g), lines[i])

\* No negamax call made on gs yet.
NoResult == [gs |-> NewGame, depth |-> 0, val |-> 0, m |-> NoMove, calls |-> 0]
\* val, m = negamax(gs, depth, ...), with the position searched and the depth
Result(g, depth, r) ==
    [gs |-> g, depth |-> depth, val |-> r[1], m |-> r[2], calls |-> r[3]]
Entry(name, move, before) == [name |-> name, move |-> move, before |-> before]

\* No program around gs: the GameState methods are called directly.
Library ==
    [caller |-> "library", mode |-> "", status |-> "running",
     text |-> <<>>, said |-> "", selected |-> NoSquare, timers |-> <<>>]

Init ==
    /\ gs = NewGame
    /\ legal = generate_moves(NewGame)
    /\ log = <<Entry("new", NoMove, NewGame), Entry("new", NoMove, NewGame)>>
    /\ answer = NoResult
    /\ plies = 0
    /\ undos = 0
    /\ ui = Library

\* gs.make_move(m) by a caller that found m in the legal list (play,
\* on_square_click); the caller then asks for the legal moves of the new
\* position.
Apply(m) ==
    /\ m \in SeqToSet(legal)
    /\ gs' = make_move(gs, m)
    /\ legal' = generate_moves(gs')
    /\ log' = <<Entry("make_move", m, gs), log[1]>>
    /\ answer' = NoResult

ScriptedFrom(lines) ==
    /\ \E m \in Scripted(gs, lines) : Apply(m)
    /\ UNCHANGED <<plies, undos, ui>>

FreeAfter(open, lines) ==
    /\ plies < MaxPly
    /\ AtEnd(gs, open, plies)
    /\ \E m \in SeqToSet(legal) \ Scripted(gs, lines) : Apply(m)
    /\ plies' = plies + 1
    /\ UNCHANGED <<undos, ui>>

\* The caller enters the next move of an opening line,
ScriptedMove == ScriptedFrom(Lines)

\* or, where an open line has ended, any other legal move.
FreeMove == FreeAfter(OpenLines, Lines)

\* A move is taken back, once an opening line has been played out.
Undo ==
    /\ undos < MaxUndo
    /\ PastLine(gs, Lines)
    /\ gs' = undo(gs)
    /\ legal' = generate_moves(gs')
    /\ log' = <<Entry("undo", NoMove, gs), log[1]>>
    /\ answer' = NoResult
    /\ undos' = undos + 1
    /\ UNCHANGED <<plies, ui>>

Next == ScriptedMove \/ FreeMove \/ Undo

Spec == Init /\ [][Next]_vars

\* The search is asked for a move: negamax(gs, depth, -10**9, 10**9), as
\* play and _computer_move_thread call it.  The positions searched are those
\* of the endgame lines, once the game is down to kings and pawns, and the
\* two positions in which the game is over.
SearchLineTexts == <<
    LineEndgame,
    LineEndgame \o EndgameA,
    LineEndgame \o EndgameA \o EndgameB,
    LineEndgame \o EndgameC,
    LineEndgame \o EndgameC \o EndgameD,
    LineEndgame \o EndgameE,
    LineEndgame \o EndgameE \o EndgameF,
    LineMate \o <<U("d","8","h","4")>>,
    LineStalemate \o <<U("c","7","d","6")>>
>>

SearchLines == Parsed(SearchLineTexts)

SearchScripted == ScriptedFrom(SearchLines)

SearchFree == FreeAfter(SearchLines, SearchLines)

Search ==
    /\ PastLine(gs, SearchLines)
    /\ OnLine(gs, SearchLines)
    /\ answer = NoResult
    /\ \E depth \in 0..MaxDepth :
          answer' = Result(gs, depth, negamax(gs, depth, -INFINITY, INFINITY))
    /\ UNCHANGED <<gs, legal, log, plies, undos, ui>>

SearchNext == SearchScripted \/ SearchFree \/ Search

SearchSpec == Init /\ [][SearchNext]_vars

\* A caller that applies moves and takes them back in any order, as the
\* buttons of the window allow: undo is called whatever the history holds,
\* the empty history included.  The moves are the legal ones among
\* HistoryTexts, while the history is shorter than MaxHistory; undo is
\* called up to MaxPops times.
MaxHistory == 3
MaxPops == 4

HistoryTexts == <<
    U("e","2","e","4"), U("d","2","d","4"), U("g","1","f","3"),
    U("e","7","e","5"), U("d","7","d","5"), U("g","8","f","6"),
    U("e","4","d","5"), U("d","4","e","5"), U("e","4","e","5")
>>

HistoryMoves == {move_from_uci(HistoryTexts[i]) : i \in 1..Len(HistoryTexts)}

Push ==
    /\ Len(gs.move_stack) < MaxHistory
    /\ \E m \in HistoryMoves : Apply(m)
    /\ UNCHANGED <<plies, undos, ui>>

Pop ==
    /\ undos < MaxPops
    /\ gs' = undo(gs)
    /\ legal' = generate_moves(gs')
    /\ log' = <<Entry("undo", NoMove, gs), log[1]>>
    /\ answer' = NoResult
    /\ undos' = undos + 1
    /\ UNCHANGED <<plies, ui>>

HistoryNext == Push \/ Pop

HistorySpec == Init /\ [][HistoryNext]_vars

----------------------------------------------------------------------------
\* The console program: play(depth)

\* str.lower() of a text
Lowered(s) ==
    [i \in 1..Len(s) |->
        IF Among(s[i], UpperLetters)
        THEN LowerLetters[IndexOf(s[i], UpperLetters)] ELSE s[i]]

Quit == <<"q", "u", "i", "t">>
Help == <<"h", "e", "l", "p">>
UndoWord == <<"u", "n", "d", "o">>
Resign == <<"r", "e", "s", "i", "g", "n">>

\* The game is played for MaxTurns moves of the human player; the computer
\* searches to the depth given on the command line, ConsoleDepth.
MaxTurns == 2
ConsoleDepth == 1

\* What is typed at the prompt 'Your move: '.
ConsoleTexts == <<
    U("e","2","e","4"), U("d","2","d","4"), U("g","1","f","3"),
    U("f","2","f","3"), U("e","4","e","5"), U("d","4","d","5"),
    <<" ", "e", "2", "e", "4", " ">>,
    U("e","2","e","5"), U("e","7","e","5"), U("e","3","e","4"),
    <<"e", "2", "e", "4", "q">>,
    <<"e", "2", "e">>, <<>>, U("z","2","e","4"), U("e","9","e","4"),
    U("e","0","e","4"), U("E","2","E","4"),
    U("e","x","e","4"), <<"e", "2", "-", "e", "4">>,
    Quit, Help, UndoWord, <<"U", "n", "d", "o">>, Resign
>>

\* Under a program the log keeps the last pass of its loop, or its last
\* click, and nothing of the passes before.
Noted(entry) == <<entry, log[2]>>

Console ==
    [caller |-> "console", mode |-> "", status |-> "running",
     text |-> <<>>, said |-> "", selected |-> NoSquare, timers |-> <<>>]

\* One pass of the loop ends in: the next pass (running), a break (ended),
\* or an exception nobody catches (its name).
Pass(status, text, said) ==
    [ui EXCEPT !.status = status, !.text = text, !.said = said]

\* The pass leaves gs as it is.
Stay(name, status, text, said) ==
    /\ ui' = Pass(status, text, said)
    /\ log' = Noted(Entry(name, NoMove, gs))
    /\ answer' = NoResult
    /\ UNCHANGED <<gs, legal, plies, undos>>

GameOver(g) == is_checkmate(g) \/ is_stalemate(g)

\* if gs.is_checkmate(): ... break / if gs.is_stalemate(): ... break
Over ==
    Stay("over", "ended", <<>>,
         IF is_checkmate(gs) THEN "Checkmate" ELSE "Stalemate")

\* Faulty variant: any move passes that starts where a legal move starts.
IsLegal_SameOrigin(legal_moves, m) ==
    \E k \in 1..Len(legal_moves) :
        legal_moves[k][1] = m[1] /\ legal_moves[k][2] = m[2]

\* m in legal, for legal = gs.generate_moves()
IsLegal(legal_moves, m) == m \in SeqToSet(legal_moves)

\* The human player's move m is applied: gs.make_move(m).
Play(name, m) ==
    /\ gs' = make_move(gs, m)
    /\ legal' = generate_moves(gs')
    /\ log' = Noted(Entry(name, m, gs))
    /\ answer' = NoResult
    /\ plies' = plies + 1
    /\ UNCHANGED undos

\* The pass leaves gs as it is, after the text was read as m.
Refuse(m, status, text, said) ==
    /\ ui' = Pass(status, text, said)
    /\ log' = Noted(Entry("input", m, gs))
    /\ answer' = NoResult
    /\ UNCHANGED <<gs, legal, plies, undos>>

\* A move text is read: m = gs.move_from_uci(user_move) and what follows.
EnterMove(text, m, legal_moves) ==
    IF m = ValueError THEN Refuse(m, "ValueError", text, "")
    ELSE IF m = None THEN Refuse(m, "running", text, "Invalid format")
    ELSE IF ~IsLegal(legal_moves, m) THEN Refuse(m, "running", text, "Illegal move")
    ELSE Play("input", m) /\ ui' = Pass("running", text, "")

\* if user_move.lower() == 'undo': gs.undo(); gd2d.undo(); continue
\* No gd2d is defined anywhere: gs.undo() runs, then NameError is raised.
EnterUndo(text) ==
    /\ gs' = undo(gs)
    /\ legal' = generate_moves(gs')
    /\ log' = Noted(Entry("undo", NoMove, gs))
    /\ answer' = NoResult
    /\ ui' = Pass("NameError", text, "")
    /\ undos' = undos + 1
    /\ UNCHANGED plies

Enter(text, user_move, legal_moves) ==
    IF Lowered(user_move) = Quit THEN Stay("command", "ended", text, "Goodbye")
    ELSE IF Lowered(user_move) = Help THEN Stay("command", "running", text, "help")
    ELSE IF Lowered(user_move) = UndoWord THEN EnterUndo(text)
    ELSE IF Lowered(user_move) = Resign
    THEN Stay("command", "ended", text, "You resigned")
    ELSE EnterMove(text, move_from_uci(user_move), legal_moves)

\* White to move: user_move = input('Your move: ').strip()
Prompt(legal_moves) ==
    \E i \in 1..Len(ConsoleTexts) :
        Enter(ConsoleTexts[i], strip(ConsoleTexts[i]), legal_moves)

Human ==
    /\ ui.caller = "console"
    /\ ui.status = "running"
    /\ gs.to_move = "w"
    /\ plies < MaxTurns
    /\ IF GameOver(gs) THEN Over ELSE Prompt(generate_moves(gs))

\* val, m = negamax(gs, depth, -10**9, 10**9) and what follows.
Reply(r) ==
    IF r[2] = NoMove THEN Stay("reply", "ended", <<>>, "No legal moves")
    ELSE /\ gs' = make_move(gs, r[2])
         /\ legal' = generate_moves(gs')
         /\ log' = Noted(Entry("reply", r[2], gs))
         /\ answer' = Result(gs, ConsoleDepth, r)
         /\ ui' = Pass("running", <<>>, "Computer plays")
         /\ UNCHANGED <<plies, undos>>

\* Black to move: the computer.
Computer ==
    /\ ui.caller = "console"
    /\ ui.status = "running"
    /\ gs.to_move = "b"
    /\ IF GameOver(gs) THEN Over
       ELSE Reply(negamax(gs, ConsoleDepth, -INFINITY, INFINITY))

----------------------------------------------------------------------------
\* The window: ChessGUI.on_square_click

\* The window also holds: the callbacks handed to after() and not yet run
\* (timers), the search threads started and not yet ended (workers), which
\* GameState object self.gs is (obj; new_game makes a new one), and how many
\* times a button or a mode radio was pressed.
Window(mode) ==
    [caller |-> "gui", mode |-> mode, status |-> "running",
     text |-> <<>>, said |-> "", selected |-> NoSquare, timers |-> <<>>,
     workers |-> <<>>, obj |-> 1, presses |-> 0]

\* self.after(delay, f), f being called with the move m.
Timer(f, delay, m) == [f |-> f, delay |-> delay, m |-> m]

\* The GameState object obj is changed in place to the position g: a search
\* that is reading the object reads a position that changes under it.
Disturbed(workers, obj, g) ==
    [i \in 1..Len(workers) |->
        IF workers[i].phase = "searching" /\ workers[i].obj = obj
        THEN [workers[i] EXCEPT !.held = @ \cup {g}] ELSE workers[i]]

\* The squares that are clicked: e2, d2, g1, e7, e4, d4, e5, f3.
ClickSquares ==
    {<<6, 4>>, <<6, 3>>, <<7, 6>>, <<1, 4>>, <<4, 4>>, <<4, 3>>, <<3, 4>>, <<5, 5>>}

\* A piece the player may pick up: White's in 'pvc', the mover's in 'pvp'.
CanSelect(g, mode, piece) ==
    /\ piece # "."
    /\ IF mode = "pvc" THEN isupper(piece)
       ELSE \/ g.to_move = "w" /\ isupper(piece)
            \/ g.to_move = "b" /\ islower(piece)

LastRankPawn(moving_piece, tr) == upper(moving_piece) = "P" /\ (tr = 0 \/ tr = 7)

PromotionOrder == <<"q", "r", "b", "n">>

\* move = (fr, fc, tr, tc, prom), with the queen as the promotion piece by
\* default and the other pieces tried in turn when that move is not legal.
ClickMove(g, legal_moves, fr, fc, tr, tc) ==
    LET pawn == LastRankPawn(At(g.board, fr, fc), tr)
        move == <<fr, fc, tr, tc, IF pawn THEN "q" ELSE None>>
        found == {i \in 1..4 :
                    IsLegal(legal_moves, <<fr, fc, tr, tc, PromotionOrder[i]>>)}
    IN  IF ~IsLegal(legal_moves, move) /\ pawn /\ found # {}
        THEN <<fr, fc, tr, tc,
               PromotionOrder[CHOOSE i \in found : \A k \in found : i <= k]>>
        ELSE move

\* The click changes the selection at most.
Reselect(name, move, selected) ==
    /\ ui' = [ui EXCEPT !.selected = selected]
    /\ log' = Noted(Entry(name, move, gs))
    /\ answer' = NoResult
    /\ UNCHANGED <<gs, legal, plies, undos>>

\* A piece was selected before: the click asks for its move to (r, c).
ClickTo(r, c, legal_moves, move) ==
    IF IsLegal(legal_moves, move)
    THEN /\ Play("click", move)
         /\ ui' = [ui EXCEPT
                !.selected = NoSquare,
                !.workers = Disturbed(@, ui.obj, gs'),
                !.timers = IF ui.mode = "pvc" /\ gs'.to_move = "b"
                           THEN Append(@, Timer("start_computer_move", 50, NoMove))
                           ELSE @]
    ELSE Reselect("click", move,
                  IF CanSelect(gs, ui.mode, At(gs.board, r, c))
                  THEN <<r, c>> ELSE NoSquare)

Clicked(r, c, legal_moves) ==
    IF ui.mode = "pvc" /\ gs.to_move = "b"
    THEN Reselect("ignored", NoMove, ui.selected)
    ELSE IF ui.selected = NoSquare
    THEN Reselect("select", NoMove,
                  IF CanSelect(gs, ui.mode, At(gs.board, r, c))
                  THEN <<r, c>> ELSE NoSquare)
    ELSE ClickTo(r, c, legal_moves,
                 ClickMove(gs, legal_moves, ui.selected[1], ui.selected[2], r, c))

on_square_click(r, c) == Clicked(r, c, generate_moves(gs))

Click ==
    /\ ui.caller = "gui"
    /\ plies < MaxTurns
    /\ \E sq \in ClickSquares : on_square_click(sq[1], sq[2])

\* The two programs a person plays through: the console loop, and the
\* window in either of its modes.
CallerInit ==
    /\ gs = NewGame
    /\ legal = generate_moves(NewGame)
    /\ log = <<Entry("new", NoMove, NewGame), Entry("new", NoMove, NewGame)>>
    /\ answer = NoResult
    /\ plies = 0
    /\ undos = 0
    /\ ui \in {Console, Window("pvc"), Window("pvp")}

CallerNext == Human \/ Computer \/ Click

CallerSpec == CallerInit /\ [][CallerNext]_vars

----------------------------------------------------------------------------
\* The window: the computer's move, the buttons and the mode radios

\* The depth in the spin box, and how many times buttons and mode radios
\* are pressed.
GuiDepth == 1
MaxPresses == 1

\* start_computer_move: the search threads after the call.
start_computer_move(u, g) ==
    IF u.mode # "pvc" \/ g.to_move # "b" THEN u.workers
    ELSE Append(u.workers,
                [phase |-> "started", depth |-> GuiDepth, obj |-> 0,
                 gs |-> NewGame, held |-> {}])

Without(seq, i) == SubSeq(seq, 1, i - 1) \o SubSeq(seq, i + 1, Len(seq))

\* A callback is due before those handed over earlier only if its delay is
\* shorter than theirs.
CanFire(timers, i) == \A j \in 1..(i - 1) : timers[j].delay > timers[i].delay

\* _apply_computer_move(m, val, elapsed), run by the event loop.
_apply_computer_move(m, timers) ==
    /\ gs' = make_move(gs, m)
    /\ legal' = generate_moves(gs')
    /\ log' = Noted(Entry("apply", m, gs))
    /\ answer' = NoResult
    /\ ui' = [ui EXCEPT !.timers = timers,
                         !.workers = Disturbed(@, ui.obj, gs')]
    /\ plies' = plies + 1
    /\ UNCHANGED undos

\* A step that leaves the position as it is.
Ran(u) ==
    /\ ui' = u
    /\ UNCHANGED <<gs, legal, log, answer, plies, undos>>

Fired(t, timers) ==
    IF t.f = "_apply_computer_move" THEN _apply_computer_move(t.m, timers)
    ELSE IF t.f = "start_computer_move"
    THEN Ran([ui EXCEPT !.timers = timers,
                      !.workers = start_computer_move(ui, gs)])
    ELSE Ran([ui EXCEPT !.timers = timers])

Fire ==
    /\ ui.caller = "gui"
    /\ \E i \in 1..Len(ui.timers) :
          /\ CanFire(ui.timers, i)
          /\ Fired(ui.timers[i], Without(ui.timers, i))

\* _computer_move_thread reaches negamax(self.gs, depth, ...): the search
\* begins to read the object self.gs is at that moment.
ThreadBegin ==
    /\ ui.caller = "gui"
    /\ \E i \in 1..Len(ui.workers) :
          /\ ui.workers[i].phase = "started"
          /\ ui' = [ui EXCEPT !.workers[i] =
                        [@ EXCEPT !.phase = "searching", !.obj = ui.obj,
                                  !.gs = gs]]
    /\ UNCHANGED <<gs, legal, log, answer, plies, undos>>

\* The moves negamax may return.  A search left alone returns the move for
\* the position it was started on.  One whose object was changed meanwhile
\* returns the move for one of the positions the object held while it was
\* read: the change came after its last read, or before its first.
Returned(w) ==
    {negamax(g, w.depth, -INFINITY, INFINITY)[2] : g \in {w.gs} \cup w.held}

\* negamax has returned m: the thread asks the event loop for the move, or
\* for the game-over box, and ends.
Posted(i, m) ==
    Ran([ui EXCEPT !.workers = Without(@, i),
               !.timers = Append(@, IF m = NoMove
                                    THEN Timer("showinfo", 1, NoMove)
                                    ELSE Timer("_apply_computer_move", 1, m))])

ThreadEnd ==
    /\ ui.caller = "gui"
    /\ \E i \in 1..Len(ui.workers) :
          /\ ui.workers[i].phase = "searching"
          /\ \E m \in Returned(ui.workers[i]) : Posted(i, m)

\* A handler that takes back one ply in either mode.
TakenBack_Once(g, mode) == undo(g)

\* ChessGUI.undo: one gs.undo(), and in 'pvc' another if black is to move
\* after the first.
TakenBack(g, mode) ==
    IF mode = "pvc" /\ undo(g).to_move = "b" THEN undo(undo(g)) ELSE undo(g)

Pressed(name, g, u) ==
    /\ gs' = g
    /\ legal' = generate_moves(g)
    /\ log' = Noted(Entry(name, NoMove, gs))
    /\ answer' = NoResult
    /\ ui' = [u EXCEPT !.presses = @ + 1]
    /\ UNCHANGED <<plies, undos>>

UndoButton ==
    /\ ui.caller = "gui"
    /\ ui.presses < MaxPresses
    /\ Pressed("undo", TakenBack(gs, ui.mode),
               [ui EXCEPT !.selected = NoSquare,
                          !.workers = IF TakenBack(gs, ui.mode) = gs THEN @
                                      ELSE Disturbed(@, ui.obj,
                                                     TakenBack(gs, ui.mode))])

\* new_game: self.gs is a new GameState.
new_game ==
    /\ ui.caller = "gui"
    /\ ui.presses < MaxPresses
    /\ Pressed("new_game", NewGame,
               [ui EXCEPT !.selected = NoSquare,
                          !.obj = @ + 1,
                          !.timers = IF ui.mode = "pvc" /\ NewGame.to_move = "b"
                                     THEN Append(@, Timer("start_computer_move",
                                                          200, NoMove))
                                     ELSE @])

\* A mode radio is pressed: the mode is set and on_mode_change runs, which
\* calls start_computer_move() itself.
on_mode_change ==
    /\ ui.caller = "gui"
    /\ ui.presses < MaxPresses
    /\ \E mode \in {"pvc", "pvp"} :
          /\ ui' = [ui EXCEPT !.mode = mode,
                              !.presses = @ + 1,
                              !.workers = start_computer_move(
                                              [ui EXCEPT !.mode = mode], gs)]
          /\ log' = Noted(Entry("mode", NoMove, gs))
          /\ answer' = NoResult
          /\ UNCHANGED <<gs, legal, plies, undos>>

\* The squares clicked in the window with a computer's move.
GuiSquares == {<<6,4>>, <<4,4>>}

GuiClick ==
    /\ ui.caller = "gui"
    /\ plies < MaxTurns
    /\ \E sq \in GuiSquares : on_square_click(sq[1], sq[2])

\* The window as constructed ('pvc'), or with the other mode radio chosen
\* before anything else.
GuiInit ==
    /\ gs = NewGame
    /\ legal = generate_moves(NewGame)
    /\ log = <<Entry("new", NoMove, NewGame), Entry("new", NoMove, NewGame)>>
    /\ answer = NoResult
    /\ plies = 0
    /\ undos = 0
    /\ ui \in {Window("pvc"), Window("pvp")}

GuiNext ==
    \/ GuiClick
    \/ Fire
    \/ ThreadBegin
    \/ ThreadEnd
    \/ UndoButton
    \/ new_game
    \/ on_mode_change

GuiSpec == GuiInit /\ [][GuiNext]_vars

----------------------------------------------------------------------------
\* Positions as objects.  A GameState is an object whose board, castling
\* dictionary and move_stack are objects of their own, changed in place by
\* make_move.  The heap is the sequence of the objects that exist; an
\* address is an index into it.

\* A new GameState holding the value g, at the last address of the result.
Allocate(H, g) ==
    H \o << g.board, g.castling, g.move_stack,
            [g EXCEPT !.board = Len(H) + 1, !.castling = Len(H) + 2,
                      !.move_stack = Len(H) + 3] >>

\* The position the GameState at address a holds.
Deref(H, a) ==
    [H[a] EXCEPT !.board = H[H[a].board], !.castling = H[H[a].castling],
                 !.move_stack = H[H[a].move_stack]]

\* Faulty variant: copy.copy, a new GameState that shares the board, the
\* dictionary and the stack of the one at a.
deepcopy_Shallow(H, a) == Append(H, H[a])

\* self.clone(): deepcopy(self), at the last address of the result.
deepcopy(H, a) == Allocate(H, Deref(H, a))

\* The GameState at a takes the value g: its lists and its dictionary are
\* written in place, its other attributes are assigned.
Store(H, a, g) ==
    [H EXCEPT ![H[a].board] = g.board,
              ![H[a].castling] = g.castling,
              ![H[a].move_stack] = g.move_stack,
              ![a] = [g EXCEPT !.board = H[a].board,
                               !.castling = H[a].castling,
                               !.move_stack = H[a].move_stack]]

\* The objects of H2 that existed in H: those made since are local to the
\* call that made them, and are gone when it ends.
Release(H2, H) == SubSeq(H2, 1, Len(H))

\* gs2 = self.clone(); gs2.make_move(m): gs2 is at the last address.
CloneMoved(H2, m) == Store(H2, Len(H2), make_move(Deref(H2, Len(H2)), m))

\* The legality filter of generate_moves on the GameState at a, over the
\* pseudo-legal moves numbered lo to hi: <<the moves kept, the heap
\* afterwards>>.  The loop is followed half by half, the second half on the
\* heap the first has left.
KeepIf(safe, m, H) == <<IF safe THEN <<m>> ELSE <<>>, H>>

TryOn(H, H2, side, m) ==
    KeepIf(~in_check(Deref(H2, Len(H2)).board, side), m, Release(H2, H))

RECURSIVE FilterOn(_, _, _, _, _, _)
ThenOn(first, a, side, moves, lo, hi) ==
    <<first[1] \o FilterOn(first[2], a, side, moves, lo, hi)[1],
      FilterOn(first[2], a, side, moves, lo, hi)[2]>>

FilterOn(H, a, side, moves, lo, hi) ==
    IF lo > hi THEN <<(<<>>), H>>
    ELSE IF lo = hi
    THEN TryOn(H, CloneMoved(deepcopy(H, a), moves[lo]), side, moves[lo])
    ELSE ThenOn(FilterOn(H, a, side, moves, lo, (lo + hi) \div 2),
                a, side, moves, (lo + hi) \div 2 + 1, hi)

\* self.generate_moves() on the GameState at a.
Filtered(H, a, moves) == FilterOn(H, a, Deref(H, a).to_move, moves, 1, Len(moves))

GenerateOn(H, a) == Filtered(H, a, PseudoMoves(Deref(H, a)))

\* is_checkmate() and is_stalemate() on the GameState at a.
NoMovesOn(found) == <<Len(found[1]) = 0, found[2]>>

CheckmateOn(H, a) ==
    IF ~in_check(Deref(H, a).board, Deref(H, a).to_move) THEN <<FALSE, H>>
    ELSE NoMovesOn(GenerateOn(H, a))

StalemateOn(H, a) ==
    IF in_check(Deref(H, a).board, Deref(H, a).to_move) THEN <<FALSE, H>>
    ELSE NoMovesOn(GenerateOn(H, a))

\* evaluate(gs) on the GameState at a: gs2 = gs.clone(), then
\* gs2.to_move = gs.enemy(gs.to_move).
Flipped(H2, side) == [H2 EXCEPT ![Len(H2)].to_move = enemy(side)]

Mobility(H, mat, own, opp) ==
    <<mat + 10 * (Len(own[1]) - Len(opp[1])), Release(opp[2], H)>>

CountOpponent(H, a, mat, own, H2) ==
    Mobility(H, mat, own, GenerateOn(H2, Len(H2)))

CountOwn(H, a, mat, own) ==
    CountOpponent(H, a, mat, own,
                  Flipped(deepcopy(own[2], a), Deref(own[2], a).to_move))

EvaluateOn(H, a) == CountOwn(H, a, material_score(Deref(H, a)), GenerateOn(H, a))

\* negamax(gs, depth, alpha, beta) on the GameState at a:
\* <<score, move, the heap afterwards>>.
RECURSIVE NegamaxOn(_, _, _, _, _)
RECURSIVE SearchOn(_, _, _, _, _, _, _, _)

Better(val, m, best) == IF val > best[1] THEN <<val, m>> ELSE best

Raised(val, alpha) == IF val > alpha THEN val ELSE alpha

Searched1(H, a, depth, moves, i, alpha, beta, best, H3) ==
    IF alpha >= beta THEN <<best[1], best[2], H3>>
    ELSE SearchOn(H3, a, depth, moves, i + 1, alpha, beta, best)

AfterChild(H, a, depth, moves, i, alpha, beta, best, sub) ==
    Searched1(H, a, depth, moves, i, Raised(-sub[1], alpha), beta,
              Better(-sub[1], moves[i], best), Release(sub[3], H))

Child(H, a, depth, moves, i, alpha, beta, best, H2) ==
    AfterChild(H, a, depth, moves, i, alpha, beta, best,
               NegamaxOn(H2, Len(H2), depth - 1,
                         ChildWindow(alpha, beta)[1], ChildWindow(alpha, beta)[2]))

SearchOn(H, a, depth, moves, i, alpha, beta, best) ==
    IF i > Len(moves) THEN <<best[1], best[2], H>>
    ELSE Child(H, a, depth, moves, i, alpha, beta, best,
               CloneMoved(deepcopy(H, a), moves[i]))

Generated(H, a, depth, alpha, beta, found) ==
    IF found[1] = <<>>
    THEN <<NoMovesScore(Deref(found[2], a), depth), NoMove, found[2]>>
    ELSE SearchOn(found[2], a, depth, SortedMoves(Deref(found[2], a), found[1]),
                  1, alpha, beta, <<-INFINITY, NoMove>>)

Evaluated(val) == <<val[1], NoMove, val[2]>>

NegamaxOn(H, a, depth, alpha, beta) ==
    IF depth = 0 THEN Evaluated(EvaluateOn(H, a))
    ELSE Generated(H, a, depth, alpha, beta, GenerateOn(H, a))

\* A caller that holds one GameState, whose value is gs, asks a question
\* about it; gs afterwards is what that object then holds.  from(H, a) is
\* the heap the question leaves behind.
Alone(g) == Allocate(<<>>, g)
Self == Len(Alone(NewGame))

Asked(name, H2, result) ==
    /\ gs' = Deref(H2, Self)
    /\ log' = <<Entry(name, NoMove, gs), log[1]>>
    /\ answer' = result
    /\ UNCHANGED <<legal, plies, undos, ui>>

\* No question has been asked since the last move.
Unasked == log[1].name \in {"new", "make_move"}

\* The moves of SearchSpec lead to a position, and then one question is
\* asked about it: generate_moves, is_checkmate, is_stalemate or evaluate;
Ask ==
    /\ Unasked
    /\ \/ Asked("generate_moves", GenerateOn(Alone(gs), Self)[2], NoResult)
       \/ Asked("is_checkmate", CheckmateOn(Alone(gs), Self)[2], NoResult)
       \/ Asked("is_stalemate", StalemateOn(Alone(gs), Self)[2], NoResult)
       \/ Asked("evaluate", EvaluateOn(Alone(gs), Self)[2], NoResult)

\* or a clone is made and a move applied to it, the clone staying alive;
MoveClone ==
    /\ Unasked
    /\ \E i \in 1..Len(legal) :
          Asked("clone", CloneMoved(deepcopy(Alone(gs), Self), legal[i]),
                NoResult)

\* or negamax, in the positions SearchSpec searches.
Found(depth, r) ==
    Asked("negamax", r[3], Result(gs, depth, <<r[1], r[2], 1>>))

AskSearch ==
    /\ Unasked
    /\ PastLine(gs, SearchLines)
    /\ OnLine(gs, SearchLines)
    /\ \E depth \in 0..MaxDepth :
          Found(depth, NegamaxOn(Alone(gs), Self, depth, -INFINITY, INFINITY))

ObjectNext ==
    \/ Unasked /\ SearchScripted
    \/ Unasked /\ SearchFree
    \/ Ask
    \/ MoveClone
    \/ AskSearch

ObjectSpec == Init /\ [][ObjectNext]_vars

----------------------------------------------------------------------------
\* The rules of chess the properties are stated with, independent of the
\* move generator: which squares a piece attacks.

Sign(x) == IF x > 0 THEN 1 ELSE IF x < 0 THEN -1 ELSE 0
Larger(x, y) == IF x > y THEN x ELSE y

ClearBetween(b, fr, fc, tr, tc) ==
    \A k \in 1..(Larger(abs(tr - fr), abs(tc - fc)) - 1) :
        At(b, fr + k * Sign(tr - fr), fc + k * Sign(tc - fc)) = "."

Attacks(b, fr, fc, tr, tc) ==
    LET p == At(b, fr, fc)
        dr == tr - fr
        dc == tc - fc
        diagonal == abs(dr) = abs(dc) /\ dr # 0 /\ ClearBetween(b, fr, fc, tr, tc)
        straight == (dr = 0) # (dc = 0) /\ ClearBetween(b, fr, fc, tr, tc)
    IN  CASE p = "P" -> dr = -1 /\ abs(dc) = 1
          [] p = "p" -> dr = 1 /\ abs(dc) = 1
          [] p \in {"N", "n"} -> {abs(dr), abs(dc)} = {1, 2}
          [] p \in {"K", "k"} -> Larger(abs(dr), abs(dc)) = 1
          [] p \in {"B", "b"} -> diagonal
          [] p \in {"R", "r"} -> straight
          [] p \in {"Q", "q"} -> diagonal \/ straight
          [] OTHER -> FALSE

Rows == 0..7
Cols == 0..7

SquareAttacked(b, r, c, by) ==
    \E fr \in Rows, fc \in Cols :
        /\ At(b, fr, fc) # "."
        /\ piece_color(At(b, fr, fc)) = by
        /\ Attacks(b, fr, fc, r, c)

KingChar(side) == IF side = "w" THEN "K" ELSE "k"
PawnChar(side) == IF side = "w" THEN "P" ELSE "p"

KingAttacked(b, side) ==
    \E r \in Rows, c \in Cols :
        At(b, r, c) = KingChar(side) /\ SquareAttacked(b, r, c, enemy(side))

\* The last operation, and the one before it.
Last == log[1]
Prior == log[2]
Applied == Last.name = "make_move"

\* The move just applied and what it moved.
LastPiece == At(Last.before.board, Last.move[1], Last.move[2])
LastTarget == At(Last.before.board, Last.move[3], Last.move[4])

DoublePush(b, m) ==
    /\ m[2] = m[4]
    /\ \/ At(b, m[1], m[2]) = "P" /\ m[1] = 6 /\ m[3] = 4
       \/ At(b, m[1], m[2]) = "p" /\ m[1] = 1 /\ m[3] = 3

\* A pawn moving diagonally onto an empty square: an en-passant capture.
EpCapture(b, m) ==
    /\ upper(At(b, m[1], m[2])) = "P"
    /\ m[2] # m[4]
    /\ At(b, m[3], m[4]) = "."

----------------------------------------------------------------------------
\* C1: make_move(m) followed by undo() leaves a position whose serialised
\* record fen() is the record before the move.
C1_RoundTrip ==
    (Last.name = "undo" /\ Prior.name = "make_move")
        => fen(gs) = fen(Prior.before)

\* C2: generate_moves() is exactly the pseudo-legal candidates of the side to
\* move whose application leaves the mover's king unattacked.
C2_LegalMoves ==
    LET pseudo == SeqToSet(PseudoMoves(gs))
    IN  SeqToSet(legal) = {m \in pseudo : ~KingAttacked(BoardAfter(gs, m), gs.to_move)}

\* A position, reached by a move, in which the filter removes a candidate
\* and keeps another.
C2_Witness ==
    /\ Applied
    /\ legal # <<>>
    /\ Len(legal) < Len(PseudoMoves(gs))

\* negamax with the 'alpha >= beta' break removed: every move of the sorted
\* list is searched, and the first move with the strictly greatest value is
\* kept.  The result has the shape of negamax's.
RECURSIVE negamax_NoCutoff(_, _)
RECURSIVE SearchAllMoves(_, _, _, _, _)
SearchAllMoves(g, depth, moves, i, best) ==
    IF i > Len(moves) THEN best
    ELSE LET sub == negamax_NoCutoff(make_move(g, moves[i]), depth - 1)
             val == -sub[1]
             best2 == IF val > best[1] THEN <<val, moves[i], best[3] + sub[3]>>
                      ELSE <<best[1], best[2], best[3] + sub[3]>>
         IN  SearchAllMoves(g, depth, moves, i + 1, best2)

negamax_NoCutoff(g, depth) ==
    IF depth = 0 THEN <<evaluate(g), NoMove, 1>>
    ELSE LET moves == generate_moves(g) IN
         IF moves = <<>>
         THEN IF in_check(g.board, g.to_move)
              THEN <<-MATED + (MATE_BIAS - depth), NoMove, 1>>
              ELSE <<0, NoMove, 1>>
         ELSE SearchAllMoves(g, depth, SortedMoves(g, moves), 1,
                             <<-INFINITY, NoMove, 1>>)

Searched == answer.depth > 0

\* C3: negamax called with the full window returns the same score and the
\* same move as the search over the same sorted move lists without the
\* alpha-beta cutoff.
C3_PruningKeepsResult ==
    Searched =>
        LET full == negamax_NoCutoff(answer.gs, answer.depth)
        IN  answer.val = full[1] /\ answer.m = full[2]

\* A search in which the cutoff skipped part of the tree.
C3_Witness ==
    /\ Searched
    /\ answer.depth >= 2
    /\ answer.calls < negamax_NoCutoff(answer.gs, answer.depth)[3]

\* The leaf score seen from the side to move: its own material minus the
\* opponent's, plus the mobility term of evaluate.
MoverMaterial(g) ==
    IF g.to_move = "w" THEN material_score(g) ELSE -material_score(g)

MoverScore(g) == MoverMaterial(g) + (evaluate(g) - material_score(g))

SetMax(S) == CHOOSE x \in S : \A y \in S : y <= x

\* The best outcome the side to move can force in depth plies, each side
\* choosing what is best for itself.
RECURSIVE MoverBest(_, _)
MoverBest(g, depth) ==
    IF depth = 0 THEN MoverScore(g)
    ELSE LET moves == generate_moves(g) IN
         IF moves = <<>>
         THEN IF in_check(g.board, g.to_move)
              THEN -MATED + (MATE_BIAS - depth)
              ELSE 0
         ELSE SetMax({-MoverBest(make_move(g, moves[i]), depth - 1) :
                        i \in 1..Len(moves)})

\* C4: the score negamax returns is the best the root mover can force, from
\* the root mover's point of view, and the move it returns achieves that
\* score, whichever side is to move and whatever the depth.
C4_MoverPerspective ==
    Searched =>
        LET best == MoverBest(answer.gs, answer.depth)
        IN  /\ answer.val = best
            /\ answer.m # NoMove =>
                   -MoverBest(make_move(answer.gs, answer.m), answer.depth - 1)
                       = best

C6_CastlingRights ==
    Applied =>
        LET m == Last.move
            old == Last.before.castling
            lost(r, c, king) ==
                \/ LastPiece = king
                \/ m[1] = r /\ m[2] = c /\ upper(LastPiece) = "R"
                \/ m[3] = r /\ m[4] = c /\ LastTarget # "."
        IN  gs.castling = [K |-> old.K /\ ~lost(7, 7, "K"),
                           Q |-> old.Q /\ ~lost(7, 0, "K"),
                           k |-> old.k /\ ~lost(0, 7, "k"),
                           q |-> old.q /\ ~lost(0, 0, "k")]

\* The square a double push passes over, in algebraic notation.
PassedOver(b, m) ==
    <<FileChars[m[2] + 1], IF At(b, m[1], m[2]) = "P" THEN "3" ELSE "6">>

\* An enemy pawn stands beside the pawn that move m has just pushed.
EnemyPawnBeside(g, m) ==
    \E dc \in {-1, 1} :
        /\ in_bounds(m[3], m[4] + dc)
        /\ At(g.board, m[3], m[4] + dc) = PawnChar(g.to_move)

\* C7 as claimed: en_passant is set only after a double push that has an
\* enemy pawn beside the pushed pawn, and is null after every other move.
C7_OnlyWhenCapturable ==
    Applied =>
        gs.en_passant =
            IF DoublePush(Last.before.board, Last.move) /\ EnemyPawnBeside(gs, Last.move)
            THEN PassedOver(Last.before.board, Last.move)
            ELSE NoSquare

\* C7 amended: en_passant is the passed-over square after every double push,
\* whether or not an enemy pawn stands beside the pushed pawn, and null after
\* every other move.
C7_EnPassantTarget ==
    Applied =>
        gs.en_passant =
            IF DoublePush(Last.before.board, Last.move)
            THEN PassedOver(Last.before.board, Last.move)
            ELSE NoSquare

\* A double push with no enemy pawn beside it has set the target.
C7_Witness ==
    /\ Applied
    /\ DoublePush(Last.before.board, Last.move)
    /\ ~EnemyPawnBeside(gs, Last.move)
    /\ gs.en_passant # NoSquare

\* C8: right after a double push every enemy pawn beside the pushed pawn has
\* the capture onto the passed-over square among the candidates, and among
\* the legal moves unless it exposes its king; applying it empties the pushed
\* pawn's square and the source and puts the capturing pawn on the
\* destination; after any other move no such capture is offered.
C8_EnPassantCapture ==
    /\ (Applied /\ DoublePush(Last.before.board, Last.move)) =>
          \A dc \in {-1, 1} :
              LET m == Last.move
                  r == m[3]
                  c == m[4] + dc
                  cap == <<r, c, (m[1] + m[3]) \div 2, m[4], None>>
                  after == make_move(gs, cap).board
              IN  (in_bounds(r, c) /\ At(gs.board, r, c) = PawnChar(gs.to_move)) =>
                      /\ cap \in SeqToSet(PseudoMoves(gs))
                      /\ (cap \in SeqToSet(legal))
                            = ~in_check(after, gs.to_move)
                      /\ At(after, m[3], m[4]) = "."
                      /\ At(after, r, c) = "."
                      /\ At(after, cap[3], cap[4]) = PawnChar(gs.to_move)
    /\ (Applied /\ ~DoublePush(Last.before.board, Last.move)) =>
          \A m \in SeqToSet(legal) : ~EpCapture(gs.board, m)
    /\ (Applied /\ EpCapture(Last.before.board, Last.move)) =>
          /\ At(gs.board, Last.move[1], Last.move[4]) = "."
          /\ At(gs.board, Last.move[1], Last.move[2]) = "."
          /\ At(gs.board, Last.move[3], Last.move[4]) = LastPiece

\* An en-passant capture has been applied.
C8_Witness == Applied /\ EpCapture(Last.before.board, Last.move)

FarRank(side) == IF side = "w" THEN 0 ELSE 7

Count(seq, x) == Cardinality({i \in 1..Len(seq) : seq[i] = x})

\* C9: a legal pawn move to the far rank comes as exactly four moves, one per
\* promotion piece, and never without one; applying it puts the chosen
\* piece, in the mover's colour, on the destination and leaves no pawn on the
\* source or the destination.
C9_Promotion ==
    LET side == gs.to_move
        piece(kind) == IF side = "w" THEN upper(kind) ELSE lower(kind)
    IN  /\ \A m \in SeqToSet(legal) :
              IF At(gs.board, m[1], m[2]) = PawnChar(side) /\ m[3] = FarRank(side)
              THEN /\ m[5] \in {"q", "r", "b", "n"}
                   /\ \A k \in {"q", "r", "b", "n"} :
                         Count(legal, <<m[1], m[2], m[3], m[4], k>>) = 1
                   /\ LET after == make_move(gs, m).board IN
                      /\ At(after, m[3], m[4]) = piece(m[5])
                      /\ At(after, m[1], m[2]) = "."
              ELSE m[5] = None
        /\ (Applied /\ Last.move[5] # None) =>
              /\ At(gs.board, Last.move[3], Last.move[4])
                    = (IF LastPiece = "P" THEN upper(Last.move[5]) ELSE lower(Last.move[5]))
              /\ At(gs.board, Last.move[3], Last.move[4]) \notin {"P", "p"}
              /\ At(gs.board, Last.move[1], Last.move[2]) = "."

\* A promotion by capture has been applied.
C9_Witness == Applied /\ Last.move[5] # None /\ LastTarget # "."

\* C10: a castling move is legal only if the mover holds the right, the
\* squares between king and rook are empty, and the king's square, the square
\* it crosses and its destination are not attacked; an attack on the b-file
\* square alone does not withdraw queen-side castling.
C10_Castling ==
    LET side == gs.to_move
        row == IF side = "w" THEN 7 ELSE 0
        b == gs.board
        safe(c) == ~SquareAttacked(b, row, c, enemy(side))
        kingSide == /\ IF side = "w" THEN gs.castling.K ELSE gs.castling.k
                    /\ At(b, row, 5) = "." /\ At(b, row, 6) = "."
                    /\ safe(4) /\ safe(5) /\ safe(6)
        queenSide == /\ IF side = "w" THEN gs.castling.Q ELSE gs.castling.q
                     /\ At(b, row, 1) = "." /\ At(b, row, 2) = "." /\ At(b, row, 3) = "."
                     /\ safe(4) /\ safe(3) /\ safe(2)
    IN  /\ \A m \in SeqToSet(legal) :
              (upper(At(b, m[1], m[2])) = "K" /\ abs(m[4] - m[2]) = 2) =>
                  /\ m[1] = row /\ m[2] = 4 /\ m[3] = row
                  /\ m[4] = 6 => kingSide
                  /\ m[4] = 2 => queenSide
                  /\ m[4] \in {2, 6}
        /\ (At(b, row, 4) = KingChar(side) /\ queenSide) =>
              <<row, 4, row, 2, None>> \in SeqToSet(legal)
        /\ (At(b, row, 4) = KingChar(side) /\ kingSide) =>
              <<row, 4, row, 6, None>> \in SeqToSet(legal)

\* Queen-side castling is offered while the b-file square is attacked.
C10_Witness ==
    /\ Applied
    /\ <<7, 4, 7, 2, None>> \in SeqToSet(legal)
    /\ SquareAttacked(gs.board, 7, 1, "b")

----------------------------------------------------------------------------
\* C11: undo() on an empty history changes nothing: the board, the side to
\* move, the castling rights, the en-passant target, both clocks and the
\* (empty) history are what they were, whatever calls came before.
C11_UndoOnEmpty ==
    (Last.name = "undo" /\ Last.before.move_stack = <<>>) => gs = Last.before

\* An undo on an empty history that follows the undo of an applied move.
C11_Witness ==
    /\ Last.name = "undo"
    /\ Last.before.move_stack = <<>>
    /\ Prior.name = "undo"
    /\ Prior.before.move_stack # <<>>

----------------------------------------------------------------------------
\* A negamax call has been made on gs.
Answered == answer.calls > 0 /\ answer.gs = gs

----------------------------------------------------------------------------
\* The number of sequences of n moves that can be played from g, each move
\* taken from generate_moves() of the position it is played in.
RECURSIVE Perft(_, _)
RECURSIVE PerftSum(_, _, _, _)
PerftSum(g, moves, i, n) ==
    IF i > Len(moves) THEN 0
    ELSE Perft(make_move(g, moves[i]), n - 1) + PerftSum(g, moves, i + 1, n)

Perft(g, n) ==
    IF n = 0 THEN 1
    ELSE IF n = 1 THEN Len(generate_moves(g))
    ELSE PerftSum(g, generate_moves(g), 1, n)

FirstMoveE2E4 ==
    /\ Applied
    /\ Last.before = NewGame
    /\ Last.move = move_from_uci(U("e","2","e","4"))

\* C13: the initial position has 20 legal moves, black has 20 after e2e4, and
\* the sequences of 1, 2 and 3 moves from the initial position number 20,
\* 400 and 8902.
C13_Perft ==
    /\ gs = NewGame =>
           /\ Len(legal) = 20
           /\ Perft(gs, 1) = 20
           /\ Perft(gs, 2) = 400
           /\ Perft(gs, 3) = 8902
    /\ FirstMoveE2E4 => (gs.to_move = "b" /\ Len(legal) = 20)

\* The position after e2e4, with black's moves generated.
C13_Witness == FirstMoveE2E4 /\ gs.to_move = "b" /\ legal # <<>>

----------------------------------------------------------------------------
\* f2f3, e7e5, g2g4, d8h4
FoolsMate == Parsed(<<LineMate \o <<U("d","8","h","4")>>>>)[1]

\* C14: along the fool's mate each move is in generate_moves() of the
\* position it is played in, and the position after the four moves is a
\* checkmate, not a stalemate, in which white has no legal move.
C14_FoolsMate ==
    LET h == StackMoves(gs) IN
    (Len(h) <= 4 /\ IsPrefix(h, FoolsMate)) =>
        IF Len(h) < 4
        THEN FoolsMate[Len(h) + 1] \in SeqToSet(legal)
        ELSE /\ gs.to_move = "w"
             /\ is_checkmate(gs)
             /\ ~is_stalemate(gs)
             /\ Len(legal) = 0

\* The position after the four moves have been applied.
C14_Witness ==
    /\ Applied
    /\ Len(gs.move_stack) = 4
    /\ IsPrefix(FoolsMate, StackMoves(gs))

\* A text that does not spell two squares of the board: shorter than four
\* characters, or with a file outside a-h or a rank outside 1-8 in either
\* square.
ValidSquare(file, rank) ==
    /\ Among(file, FileChars)
    /\ isdigit(rank) /\ int(rank) \in 1..8

Malformed(s) ==
    \/ Len(s) < 4
    \/ ~ValidSquare(s[1], s[2])
    \/ ~ValidSquare(s[3], s[4])

\* A move, as opposed to None and to an exception.
IsMove(m) == m # None /\ m # ValueError /\ m # NoMove

\* C15: a move text that does not parse into two valid squares is reported
\* by move_from_uci as None without raising, and the console loop then says
\* 'Invalid format' and prompts again with the position and the history
\* unchanged.
C15_InvalidFormat ==
    (ui.caller = "console" /\ Last.name = "input" /\ Malformed(strip(ui.text)))
        => /\ Last.move = None
           /\ ui.status = "running"
           /\ ui.said = "Invalid format"
           /\ gs = Last.before

\* C16: a move that is spelled correctly but is not in generate_moves() of
\* the current position is refused by the console loop and by the click
\* handler, and nothing of the position or its history changes; a move the
\* person enters is applied only when it is in that list.
C16_IllegalRejected ==
    (Last.name \in {"input", "click"} /\ IsMove(Last.move))
        => IF Last.move \in SeqToSet(generate_moves(Last.before))
           THEN gs = make_move(Last.before, Last.move)
           ELSE /\ gs = Last.before
                /\ ui.status = "running"
                /\ ui.caller = "console" => ui.said = "Illegal move"

\* The console has refused a well-spelled move in the second turn, after
\* the computer's reply to the first.
C16_Witness ==
    /\ ui.caller = "console"
    /\ Last.name = "input"
    /\ ~Malformed(strip(ui.text))
    /\ IsMove(Last.move)
    /\ Last.move \notin SeqToSet(generate_moves(gs))
    /\ ui.said = "Illegal move"
    /\ plies = 1
    /\ gs.to_move = "w"

\* The window has refused the move a click asked for.
ClickRefused ==
    /\ ui.caller = "gui"
    /\ Last.name = "click"
    /\ Last.move \notin SeqToSet(generate_moves(gs))
    /\ gs = Last.before

\* C19: in the console loop 'undo' takes back the last move and the loop
\* goes on: it is still running afterwards, on a position whose history is
\* one move shorter.
C19_ConsoleUndo ==
    (ui.caller = "console" /\ Last.name = "undo")
        => /\ ui.status = "running"
           /\ Last.before.move_stack # <<>>
                => Len(gs.move_stack) = Len(Last.before.move_stack) - 1

\* The value of the piece on a square: positive for White, negative for
\* Black.
PieceWorth(p) ==
    CASE p = "P" -> 100 [] p = "N" -> 320 [] p = "B" -> 330
      [] p = "R" -> 500 [] p = "Q" -> 900 [] p = "K" -> 0
      [] p = "p" -> -100 [] p = "n" -> -320 [] p = "b" -> -330
      [] p = "r" -> -500 [] p = "q" -> -900 [] p = "k" -> 0
      [] OTHER -> 0

RECURSIVE Worth(_, _)
Worth(b, n) == IF n = 0 THEN 0 ELSE PieceWorth(b[n]) + Worth(b, n - 1)

\* The same board with the opponent to move: no pawn has just advanced two
\* squares, so there is no en-passant target.
OpponentToMove(g) ==
    [g EXCEPT !.to_move = enemy(g.to_move), !.en_passant = NoSquare]

\* C17: evaluate is the material, counted positively for White and
\* negatively for Black, plus 10 times the difference between the number of
\* legal moves of the side to move and the number of legal moves the
\* opponent really has on the same board when it is its turn.
C17_Evaluate ==
    evaluate(gs) = Worth(gs.board, 64)
                   + 10 * (Len(legal) - Len(generate_moves(OpponentToMove(gs))))

\* What negamax returns for the position g with d plies left to search.  A
\* search of root depth D reaches a position at ply p with D - p plies left
\* (negamax calls itself with depth - 1), so within one search fewer plies
\* left means a later ply.
ScoreWithLeft(g, d) == negamax(g, d, -INFINITY, INFINITY)[1]

\* The side to move in gs is mated and the search was given at least one
\* ply, so that it looked for moves.
MateSearched == Answered /\ answer.depth >= 1 /\ is_checkmate(gs)

Questions ==
    {"generate_moves", "is_checkmate", "is_stalemate", "evaluate", "negamax"}

\* C18: generate_moves, is_checkmate, is_stalemate, evaluate and negamax
\* leave the position they are called on unchanged, in every square, the
\* side to move, the castling rights, the en-passant target, the clocks and
\* the history; and a move made on a clone is not seen in the position it
\* was cloned from.
C18_Frame ==
    Last.name \in Questions \cup {"clone"} => gs = Last.before

\* A search of two plies or more was made on a position that has moves: it
\* has cloned the position, and clones of the clones.
C18_Witness ==
    /\ Last.name = "negamax"
    /\ answer.depth >= 2
    /\ answer.m # NoMove

\* The search on the object returns what the search on the value returns.
SameAnswer ==
    Last.name = "negamax" =>
        /\ answer.val = negamax(gs, answer.depth, -INFINITY, INFINITY)[1]
        /\ answer.m = negamax(gs, answer.depth, -INFINITY, INFINITY)[2]

\* How many squares of the board hold the piece p.
CountOf(b, p) == Cardinality({i \in 1..64 : b[i] = p})

\* C26: every position reached from the initial one by moves that
\* generate_moves() returned holds exactly one white king and exactly one
\* black king.
C26_OneKingEach ==
    /\ CountOf(gs.board, "K") = 1
    /\ CountOf(gs.board, "k") = 1

\* The last move was a castling move: the king went two files sideways.
Castled ==
    /\ Applied
    /\ upper(LastPiece) = "K"
    /\ abs(Last.move[4] - Last.move[2]) = 2

\* The corner the castling rook comes from.
CastlingCorner == <<Last.move[1], IF Last.move[4] > Last.move[2] THEN 7 ELSE 0>>

\* Whether a move of the history started or ended on the square sq.
Touched(record, sq) ==
    \/ <<record.fr, record.fc>> = sq
    \/ <<record.tr, record.tc>> = sq

\* C27: when a castling move is applied, the piece make_move takes from the
\* corner is the mover's own rook, and no earlier move of the game started
\* or ended on that corner: the rook is the original one, never moved and
\* never captured and replaced.
C27_OriginalRook ==
    Castled =>
        /\ At(Last.before.board, CastlingCorner[1], CastlingCorner[2])
              = (IF Last.before.to_move = "w" THEN "R" ELSE "r")
        /\ \A k \in 1..Len(Last.before.move_stack) :
              ~Touched(Last.before.move_stack[k], CastlingCorner)

\* The window's event handlers and its search threads.
InWindow == ui.caller = "gui"
UndoPressed == InWindow /\ Last.name = "undo"
Taken == Len(Last.before.move_stack) - Len(gs.move_stack)

\* C21: whenever _apply_computer_move runs, black is to move and the move
\* is a legal move of the position it is applied to, whatever the Undo, New
\* game and mode handlers did while the search ran.
C21_AppliedWhereComputed ==
    (InWindow /\ Last.name = "apply") =>
        /\ Last.before.to_move = "b"
        /\ Last.move \in SeqToSet(generate_moves(Last.before))

\* C22: while a search thread is inside negamax, no handler changes the
\* GameState object the thread reads.
C22_NoSharedPosition ==
    InWindow => \A i \in 1..Len(ui.workers) : ui.workers[i].held = {}

\* C23: when the Undo handler returns in 'pvc', white is to move, and it
\* took back two plies if white was to move with two plies or more in the
\* history, one ply if black was to move; in 'pvp' it took back one ply.
\* Nothing is taken from an empty history, and what is left of the history
\* is its beginning.
C23_UndoButton ==
    UndoPressed =>
        /\ gs.move_stack = SubSeq(Last.before.move_stack, 1, Len(gs.move_stack))
        /\ IF Last.before.move_stack = <<>> THEN Taken = 0
           ELSE IF ui.mode = "pvp" THEN Taken = 1
           ELSE Taken = (IF Last.before.to_move = "w" THEN 2 ELSE 1)
        /\ ui.mode = "pvc" => gs.to_move = "w"

\* Undo was pressed in 'pvc' after the computer's reply, and took back the
\* reply and the move before it.
C23_Witness ==
    /\ UndoPressed
    /\ ui.mode = "pvc"
    /\ Taken = 2
    /\ gs.to_move = "w"

\* Undo was pressed in 'pvp' and took back one ply.
UndoOnePly ==
    /\ UndoPressed
    /\ ui.mode = "pvp"
    /\ Taken = 1

\* C24: at most one search thread exists at any time.
C24_OneSearch ==
    InWindow => Len(ui.workers) <= 1

\* The computer's move or a search for it is on its way: a thread exists,
\* or start_computer_move or _apply_computer_move is waiting in the event
\* loop.
Pending ==
    \/ ui.workers # <<>>
    \/ \E i \in 1..Len(ui.timers) :
          ui.timers[i].f \in {"start_computer_move", "_apply_computer_move"}

\* Black is to move in 'pvc' and the game is not over: clicks are ignored.
ComputersTurn ==
    InWindow /\ ui.mode = "pvc" /\ gs.to_move = "b" /\ ~GameOver(gs)

\* C25: whenever black is to move in 'pvc' and the game is not over, a
\* search is running or scheduled: the window never rests with black to
\* move, clicks ignored and no search pending.  Where this fails nothing is
\* left for the event loop or a thread to do, so no computer's move follows
\* however fairly they run.
C25_NeverStuck == ComputersTurn => Pending

====
